---- MODULE Spec2Model ----
(***************************************************************************)
(* The directory-listing middleware of lib/core/show-dir/index.js.        *)
(*                                                                         *)
(* A string is a sequence of one-character strings, so that slicing,      *)
(* suffix tests, trimming and collation are computed character by         *)
(* character.  A path is a sequence of segments (each a string); its      *)
(* textual form is PathString.                                             *)
(***************************************************************************)
EXTENDS Integers, Sequences, FiniteSets, TLC

\* The largest number of names one readdir returns.
MaxEntries == 2

Requests == {"r1", "r2"}

-----------------------------------------------------------------------------
(* Strings *)

Min(a, b) == IF a < b THEN a ELSE b

\* String.prototype.slice(0, n)
Slice0(s, n) == SubSeq(s, 1, Min(n, Len(s)))

\* String.prototype.endsWith
EndsWith(s, suffix) ==
    /\ Len(s) >= Len(suffix)
    /\ SubSeq(s, Len(s) - Len(suffix) + 1, Len(s)) = suffix

Whitespace == {" ", "\n"}

RECURSIVE TrimStart(_)
TrimStart(s) ==
    IF s # <<>> /\ Head(s) \in Whitespace THEN TrimStart(Tail(s)) ELSE s

RECURSIVE TrimEnd(_)
TrimEnd(s) ==
    IF s # <<>> /\ s[Len(s)] \in Whitespace
    THEN TrimEnd(SubSeq(s, 1, Len(s) - 1))
    ELSE s

\* Only the end trimmed.
TrimEndOnly(s) == TrimEnd(s)

\* String.prototype.trim
Trim(s) == TrimEnd(TrimStart(s))

\* The collation order of the characters that occur, smallest first: in the
\* root collation white space sorts before punctuation ("-" before ","
\* before "." before the brackets), punctuation before letters, and a lower
\* case letter before its upper case.
Collation ==
    << " ", "-", ",", ".", "[", "]",
       "a", "b", "c", "e", "j", "l", "o", "O", "r", "t", "u", "x" >>

Rank(c) == CHOOSE i \in 1..Len(Collation) : Collation[i] = c

\* String.prototype.localeCompare: negative, zero or positive.
RECURSIVE localeCompare(_, _)
localeCompare(a, b) ==
    IF a = <<>> /\ b = <<>> THEN 0
    ELSE IF a = <<>> THEN -1
    ELSE IF b = <<>> THEN 1
    ELSE IF Rank(Head(a)) < Rank(Head(b)) THEN -1
    ELSE IF Rank(Head(a)) > Rank(Head(b)) THEN 1
    ELSE localeCompare(Tail(a), Tail(b))

-----------------------------------------------------------------------------
(* Paths *)

DotDot == <<".", ".">>

\* path.normalize / path.resolve of an absolute path: ".." removes the
\* segment before it and is dropped at the filesystem root.
RECURSIVE NormalizeFrom(_, _)
NormalizeFrom(acc, segs) ==
    IF segs = <<>> THEN acc
    ELSE IF Head(segs) = DotDot
         THEN NormalizeFrom(IF acc = <<>> THEN acc
                            ELSE SubSeq(acc, 1, Len(acc) - 1), Tail(segs))
         ELSE NormalizeFrom(Append(acc, Head(segs)), Tail(segs))

Normalize(p) == NormalizeFrom(<<>>, p)

RECURSIVE CommonLen(_, _)
CommonLen(p, q) ==
    IF p # <<>> /\ q # <<>> /\ Head(p) = Head(q)
    THEN 1 + CommonLen(Tail(p), Tail(q))
    ELSE 0

\* path.relative(from, to): resolve both, climb out of what from does not
\* share with to, then descend into the rest of to.
PathRelative(from, to) ==
    LET f == Normalize(from)
        t == Normalize(to)
        k == CommonLen(f, t)
    IN  [i \in 1..(Len(f) - k) |-> DotDot] \o SubSeq(t, k + 1, Len(t))

\* path.join
PathJoin(p, q) == Normalize(p \o q)

\* The text of an absolute path.
RECURSIVE PathString(_)
PathString(p) ==
    IF p = <<>> THEN <<"/">>
    ELSE IF Len(p) = 1 THEN <<"/">> \o p[1]
    ELSE PathString(SubSeq(p, 1, Len(p) - 1)) \o <<"/">> \o p[Len(p)]

-----------------------------------------------------------------------------
(* The configurations, requests and directory contents that are explored *)

SegS  == <<"s">>
SegSx == <<"s", "x">>
SegA  == <<"a">>
SegB  == <<"b">>

\* opts.root after path.resolve: "/" and "/s"
Roots == { <<>>, <<SegS>> }

\* opts.baseDir: "/" and "/b"
BaseDirs == { <<>>, <<SegB>> }

CacheValues == { "max-age=3600" }

\* Decoded request paths: "/", "/a", "/b", "/b/a", "/sx", "/sx/a"
Pathnames ==
    { <<>>, <<SegA>>, <<SegB>>, <<SegB, SegA>>, <<SegSx>>, <<SegSx, SegA>> }

Localhost == <<"l", "o", "c", "a", "l">>

\* req.headers, with and without a host field
HeaderMaps == { [h \in {} |-> <<>>], [h \in {"host"} |-> Localhost] }

NameA    == <<"a">>
NameAB   == <<"a", " ", "b">>
NameDash == <<"-", "a">>
NameDot  == <<".", "e">>
NameUrl  == <<"x", ".", "u", "r", "l">>

\* The names a directory may hold.
EntryNames == { NameA, NameAB, NameDash, NameDot, NameUrl }

\* What readdir may return.
Listings == { l \in SUBSET EntryNames : Cardinality(l) <= MaxEntries }

\* What a shortcut file may hold.
FileContents == { <<"u">>, <<" ", "u", "\n">> }

\* The outcomes of fs.readFileSync: a throw, or the content.
ReadResults ==
    { [ok |-> FALSE, data |-> <<>>] } \cup { [ok |-> TRUE, data |-> c] : c \in FileContents }

-----------------------------------------------------------------------------
(* Values *)

\* The null stat of an entry whose stat failed.
Null == [tag |-> "null"]

\* An fs.Stats object: the path it describes and what isDirectory() answers.
Stats(path, isDir) == [tag |-> "stats", of |-> path, isDir |-> isDir]

NoStat == [tag |-> "none"]

NoRequest == [pathname |-> <<>>, headers |-> [h \in {} |-> <<>>]]

HeaderNames == { "content-type", "etag", "last-modified", "cache-control" }

\* A response on which nothing has been called.
FreshResponse == [headers |-> [h \in {} |-> <<>>], writeHead |-> <<>>, ended |-> <<>>]

\* res.setHeader(name, value)
SetHeader(response, name, value) ==
    [response EXCEPT !.headers =
        [h \in DOMAIN @ \cup {name} |-> IF h = name THEN value ELSE @[h]]]

\* etag(stat, weakEtags) of ../etag
Etag(st) == <<"etag", st.of>>

\* (new Date(stat.mtime)).toUTCString()
LastModified(st) == <<"mtime", st.of>>

VARIABLES
    opts,       \* the options the middleware was built with
    pc,         \* per request: the callback it waits for
    req,        \* per request: pathname and headers
    dir,        \* per request: the resolved directory
    stat,       \* per request: the stat of dir
    files,      \* per request: the names kept after the dotfile filter
    sf,         \* per request: pending names and buckets of sortFiles
    res,        \* per request: what was called on the response
    out,        \* per request: the calls of status[500] and next
    listing,    \* per request: what readdir returned
    failure,    \* per request: the filesystem call that failed
    fired       \* per request: the invocations of the sortFiles callback

vars == << opts, pc, req, dir, stat, files, sf, res, out, listing, failure, fired >>

NoBuckets == [pending |-> {}, errs |-> <<>>, dirs |-> <<>>, files |-> <<>>]

\* The state once the middleware is built and sending requests have arrived.
InitWith(arrived) ==
    /\ opts \in [ root : Roots, baseDir : BaseDirs, handleError : BOOLEAN,
                  showDotfiles : BOOLEAN, cache : CacheValues ]
    /\ pc = [r \in Requests |-> IF r \in arrived THEN "arrived" ELSE "none"]
    /\ req = [r \in Requests |-> NoRequest]
    /\ dir = [r \in Requests |-> <<>>]
    /\ stat = [r \in Requests |-> NoStat]
    /\ files = [r \in Requests |-> {}]
    /\ sf = [r \in Requests |-> NoBuckets]
    /\ res = [r \in Requests |-> FreshResponse]
    /\ out = [r \in Requests |-> <<>>]
    /\ listing = [r \in Requests |-> {}]
    /\ failure = [r \in Requests |-> "none"]
    /\ fired = [r \in Requests |-> <<>>]

Init == InitWith({"r1"})

-----------------------------------------------------------------------------
(* Resolving the request path *)

\* The arguments of path.relative exchanged.
ResolveDirSwapped(root, baseDir, pathname) ==
    Normalize(PathJoin(root, PathRelative(pathname, PathJoin(<<>>, baseDir))))

\* dir: the request path relative to the base directory, joined to the root
ResolveDir(root, baseDir, pathname) ==
    Normalize(PathJoin(root, PathRelative(PathJoin(<<>>, baseDir), pathname)))

\* path.resolve(dir, '..'), path.join(dir, '..')
ParentOf(d) == Normalize(d \o <<DotDot>>)

\* "if it makes sense to, add a .. link": the text of the parent path starts
\* with the text of the root
AddParentLink(d, root) ==
    Slice0(PathString(ParentOf(d)), Len(PathString(root))) = PathString(root)

\* The filter that drops dotfiles.
KeepFile(filename) == Slice0(filename, 1) # <<".">>

\* The filter applied when dotfiles are to be shown, not when they are hidden.
FilterFilesInverted(names, showDotfiles) ==
    IF showDotfiles THEN { n \in names : KeepFile(n) } ELSE names

FilterFiles(names, showDotfiles) ==
    IF ~showDotfiles THEN { n \in names : KeepFile(n) } ELSE names

-----------------------------------------------------------------------------
(* sortFiles: stat every name, place it in a bucket, call back when all
   have settled *)

\* The buckets when sortFiles starts.
SortFilesStart(names) ==
    [pending |-> names, errs |-> <<>>, dirs |-> <<>>, files |-> <<>>]

\* One stat settles: result is "error", "dir" or "file".
SortFilesSettle(b, d, name, result) ==
    LET rest == b.pending \ {name}
    IN  IF result = "error"
        THEN [b EXCEPT !.pending = rest, !.errs = Append(@, <<name, Null>>)]
        ELSE IF result = "dir"
        THEN [b EXCEPT !.pending = rest,
                       !.dirs = Append(@, <<name, Stats(Append(d, name), TRUE)>>)]
        ELSE [b EXCEPT !.pending = rest,
                       !.files = Append(@, <<name, Stats(Append(d, name), FALSE)>>)]

\* Every name has been resolved.
SortFilesComplete(b) == b.pending = {}

StatResults == { "error", "dir", "file" }

-----------------------------------------------------------------------------
(* render *)

UrlExt == <<".", "u", "r", "l">>

\* Object.prototype.toString of a Stats object
ObjectToString ==
    << "[", "o", "b", "j", "e", "c", "t", " ", "O", "b", "j", "e", "c", "t", "]" >>

\* Array.prototype.toString of a [name, stat] tuple
ArrayToString(file) == file[1] \o <<",">> \o ObjectToString

\* The comparators of the three sorts, as "a sorts before b".
DirsBefore(a, b) == localeCompare(a[1], b[1]) < 0

FilesBefore(a, b) == localeCompare(ArrayToString(a), ArrayToString(b)) < 0

LolwutsBefore(a, b) == localeCompare(a[1], b[1]) < 0

\* sizeToString(stat, humanReadable, si)
SizeToString(st) == <<"size", st.of>>

\* The href of an entry that is no shortcut: request path, encoded name,
\* and a trailing slash for a directory.
PathHref(pathname, name, isDir) ==
    [kind |-> "path", pathname |-> pathname, name |-> name, slash |-> isDir]

NoRow ==
    [entry |-> <<>>, displayName |-> <<>>, isDir |-> FALSE, external |-> FALSE,
     href |-> PathHref(<<>>, <<>>, FALSE), filesize |-> <<>>, content |-> <<>>]

\* writeRow(file): the row it appends to the page, or the exception it
\* throws: a null stat has no isDirectory, and readFileSync throws on a
\* shortcut file it cannot read.  reads gives readFileSync's result.  A row
\* also records the entry it was written for and what readFileSync returned
\* for it.
WriteRow(file, pathname, reads) ==
    IF file[2] = Null THEN [threw |-> TRUE, row |-> NoRow]
    ELSE
      LET isDir    == file[2].isDir
          shortcut == ~isDir /\ EndsWith(file[1], UrlExt)
      IN  IF shortcut /\ ~reads[file[1]].ok THEN [threw |-> TRUE, row |-> NoRow]
          ELSE [threw |-> FALSE,
                row |->
                  [entry       |-> file[1],
                   displayName |-> IF shortcut
                                   THEN SubSeq(file[1], 1, Len(file[1]) - 4)
                                   ELSE file[1],
                   isDir       |-> isDir,
                   external    |-> shortcut,
                   href        |-> IF shortcut
                                   THEN [kind |-> "content", pathname |-> <<>>,
                                         name |-> Trim(reads[file[1]].data),
                                         slash |-> FALSE]
                                   ELSE PathHref(pathname, file[1], isDir),
                   filesize    |-> IF shortcut THEN <<"-">>
                                   ELSE SizeToString(file[2]),
                   content     |-> IF shortcut THEN reads[file[1]].data ELSE <<>>]]

\* The ".." entry written first, the other dirs sorted after it.
RowOrderParentFirst(dirs, renderFiles, lolwuts) ==
    LET IsParent(e) == e[1] = DotDot
        NotParent(e) == e[1] # DotDot
    IN  SelectSeq(dirs, IsParent) \o SortSeq(SelectSeq(dirs, NotParent), DirsBefore)
            \o SortSeq(renderFiles, FilesBefore) \o SortSeq(lolwuts, LolwutsBefore)

\* The buckets written as they are, without sorting them.
RowOrderUnsorted(dirs, renderFiles, lolwuts) ==
    dirs \o renderFiles \o lolwuts

\* The files written before the dirs.
RowOrderFilesFirst(dirs, renderFiles, lolwuts) ==
    SortSeq(renderFiles, FilesBefore) \o SortSeq(dirs, DirsBefore)
        \o SortSeq(lolwuts, LolwutsBefore)

\* The order in which render writes the rows: the sorted dirs, then the
\* sorted files, then the sorted lolwuts.
RowOrder(dirs, renderFiles, lolwuts) ==
    SortSeq(dirs, DirsBefore) \o SortSeq(renderFiles, FilesBefore)
        \o SortSeq(lolwuts, LolwutsBefore)

\* The names of renderFiles whose rows read a shortcut file.
ShortcutNames(renderFiles) ==
    { renderFiles[i][1] : i \in { j \in 1..Len(renderFiles) :
                                    EndsWith(renderFiles[j][1], UrlExt) } }

\* render(dirs, renderFiles, lolwuts, parent): the page, or an exception
\* from a row or from req.headers.host.endsWith when there is no host.
Render(rq, dirs, renderFiles, lolwuts, reads) ==
    LET order == RowOrder(dirs, renderFiles, lolwuts)
        rows  == [i \in 1..Len(order) |-> WriteRow(order[i], rq.pathname, reads)]
    IN  [threw |-> \/ \E i \in 1..Len(order) : rows[i].threw
                   \/ "host" \notin DOMAIN rq.headers,
         html  |-> [title |-> rq.pathname,
                    rows  |-> [i \in 1..Len(order) |-> rows[i].row],
                    host  |-> IF "host" \in DOMAIN rq.headers
                              THEN rq.headers["host"] ELSE <<>>]]

-----------------------------------------------------------------------------
(* The error outcome, at the three places that produce it *)

\* A call of the status-500 handler with the error, or of next().
ErrorCall(handleError, err) ==
    IF handleError THEN [fn |-> "status500", error |-> err]
    ELSE [fn |-> "next", error |-> "none"]

\* The failure of fs.stat(dir) dropped: neither handler is called.
StatErrorSilent(r) ==
    out' = out

\* fs.stat(dir) failed
StatError(r) ==
    out' = [out EXCEPT ![r] = Append(@, ErrorCall(opts.handleError, "statErr"))]

\* The test of handleError negated.
ReadErrorInverted(r) ==
    out' = [out EXCEPT ![r] = Append(@, ErrorCall(~opts.handleError, "readErr"))]

\* fs.readdir(dir) failed
ReadError(r) ==
    out' = [out EXCEPT ![r] = Append(@, ErrorCall(opts.handleError, "readErr"))]

\* The else missing: next() is called after the status-500 handler too.
ParentErrorNoElse(r) ==
    out' = [out EXCEPT ![r] =
              IF opts.handleError
              THEN @ \o << ErrorCall(TRUE, "err"), ErrorCall(FALSE, "err") >>
              ELSE Append(@, ErrorCall(FALSE, "err"))]

\* fs.stat of the parent failed
ParentError(r) ==
    out' = [out EXCEPT ![r] = Append(@, ErrorCall(opts.handleError, "err"))]

-----------------------------------------------------------------------------
(* The handlers *)

\* The cache-control header left out.
SetHeadersNoCache(response, st, cache) ==
    LET h1 == SetHeader(response, "content-type", <<"text/html">>)
        h2 == SetHeader(h1, "etag", Etag(st))
    IN  SetHeader(h2, "last-modified", LastModified(st))

\* The four res.setHeader calls of the readdir callback.
SetHeaders(response, st, cache) ==
    LET h1 == SetHeader(response, "content-type", <<"text/html">>)
        h2 == SetHeader(h1, "etag", Etag(st))
        h3 == SetHeader(h2, "last-modified", LastModified(st))
    IN  SetHeader(h3, "cache-control", <<cache>>)

\* The end of render: an exception leaves the response as it was, otherwise
\* writeHead(200) and end(html).
RenderEffect(r, response, dirs, renderFiles, lolwuts) ==
    \E reads \in [ShortcutNames(renderFiles) -> ReadResults] :
        LET result == Render(req[r], dirs, renderFiles, lolwuts, reads)
        IN  IF result.threw
            THEN /\ pc' = [pc EXCEPT ![r] = "threw"]
                 /\ res' = [res EXCEPT ![r] = response]
            ELSE /\ pc' = [pc EXCEPT ![r] = "done"]
                 /\ res' = [res EXCEPT ![r] =
                              [response EXCEPT !.writeHead = Append(@, 200),
                                               !.ended = Append(@, result.html)]]

\* The callback given to sortFiles: stat the parent when a ".." link makes
\* sense, otherwise render.
SortFilesCallback(r, response, b) ==
    IF AddParentLink(dir[r], opts.root)
    THEN /\ pc' = [pc EXCEPT ![r] = "parentStat"]
         /\ res' = [res EXCEPT ![r] = response]
    ELSE RenderEffect(r, response, b.dirs, b.files, b.errs)

\* What one invocation of the sortFiles callback was handed.
Invocation(b) ==
    [pending |-> b.pending, lolwuts |-> b.errs, dirs |-> b.dirs, files |-> b.files]

\* dir kept in one variable of the module, shared by all requests.
MiddlewareSharedDir(r) ==
    /\ pc[r] = "arrived"
    /\ \E pathname \in Pathnames, headers \in HeaderMaps :
        /\ req' = [req EXCEPT ![r] = [pathname |-> pathname, headers |-> headers]]
        /\ dir' = [q \in Requests |->
                     ResolveDir(opts.root, opts.baseDir, pathname)]
    /\ pc' = [pc EXCEPT ![r] = "stat"]
    /\ UNCHANGED << opts, stat, files, sf, res, out, listing, failure, fired >>

\* middleware(req, res, next): resolve the directory and stat it.
Middleware(r) ==
    /\ pc[r] = "arrived"
    /\ \E pathname \in Pathnames, headers \in HeaderMaps :
        /\ req' = [req EXCEPT ![r] = [pathname |-> pathname, headers |-> headers]]
        /\ dir' = [dir EXCEPT ![r] = ResolveDir(opts.root, opts.baseDir, pathname)]
    /\ pc' = [pc EXCEPT ![r] = "stat"]
    /\ UNCHANGED << opts, stat, files, sf, res, out, listing, failure, fired >>

\* The headers set as soon as the stat of dir is there, before readdir.
StatCallbackSetsHeaders(r) ==
    /\ pc[r] = "stat"
    /\ \/ /\ StatError(r)
          /\ failure' = [failure EXCEPT ![r] = "stat"]
          /\ pc' = [pc EXCEPT ![r] = "done"]
          /\ UNCHANGED << stat, res >>
       \/ /\ \E isDir \in BOOLEAN :
                /\ stat' = [stat EXCEPT ![r] = Stats(dir[r], isDir)]
                /\ res' = [res EXCEPT ![r] =
                             SetHeaders(res[r], Stats(dir[r], isDir), opts.cache)]
          /\ pc' = [pc EXCEPT ![r] = "readdir"]
          /\ UNCHANGED << out, failure >>
    /\ UNCHANGED << opts, req, dir, files, sf, listing, fired >>

\* The callback of fs.stat(dir).
StatCallback(r) ==
    /\ pc[r] = "stat"
    /\ \/ /\ StatError(r)
          /\ failure' = [failure EXCEPT ![r] = "stat"]
          /\ pc' = [pc EXCEPT ![r] = "done"]
          /\ UNCHANGED stat
       \/ /\ \E isDir \in BOOLEAN :
                stat' = [stat EXCEPT ![r] = Stats(dir[r], isDir)]
          /\ pc' = [pc EXCEPT ![r] = "readdir"]
          /\ UNCHANGED << out, failure >>
    /\ UNCHANGED << opts, req, dir, files, sf, res, listing, fired >>

\* The parent stat or render started right after sortFiles is called,
\* without waiting for its callback.
ReaddirCallbackEager(r) ==
    /\ pc[r] = "readdir"
    /\ \/ /\ ReadError(r)
          /\ failure' = [failure EXCEPT ![r] = "readdir"]
          /\ pc' = [pc EXCEPT ![r] = "done"]
          /\ UNCHANGED << files, sf, res, listing, fired >>
       \/ /\ stat[r].isDir
          /\ \E l \in Listings :
               LET kept == FilterFiles(l, opts.showDotfiles)
                   h4 == SetHeaders(res[r], stat[r], opts.cache)
                   b  == SortFilesStart(kept)
               IN  /\ listing' = [listing EXCEPT ![r] = l]
                   /\ files' = [files EXCEPT ![r] = kept]
                   /\ sf' = [sf EXCEPT ![r] = b]
                   /\ fired' = [fired EXCEPT ![r] =
                                  IF SortFilesComplete(b) THEN Append(@, Invocation(b))
                                  ELSE @]
                   /\ SortFilesCallback(r, h4, b)
          /\ UNCHANGED << out, failure >>
    /\ UNCHANGED << opts, req, dir, stat >>

\* sortFiles called with _files, the names before the dotfile filter.
ReaddirCallbackUnfiltered(r) ==
    /\ pc[r] = "readdir"
    /\ \/ /\ ReadError(r)
          /\ failure' = [failure EXCEPT ![r] = "readdir"]
          /\ pc' = [pc EXCEPT ![r] = "done"]
          /\ UNCHANGED << files, sf, res, listing, fired >>
       \/ /\ stat[r].isDir
          /\ \E l \in Listings :
               LET kept == FilterFiles(l, opts.showDotfiles)
                   h4 == SetHeaders(res[r], stat[r], opts.cache)
                   b  == SortFilesStart(l)
               IN  /\ listing' = [listing EXCEPT ![r] = l]
                   /\ files' = [files EXCEPT ![r] = kept]
                   /\ sf' = [sf EXCEPT ![r] = b]
                   /\ IF SortFilesComplete(b)
                      THEN /\ fired' = [fired EXCEPT ![r] = Append(@, Invocation(b))]
                           /\ SortFilesCallback(r, h4, b)
                      ELSE /\ pc' = [pc EXCEPT ![r] = "entries"]
                           /\ res' = [res EXCEPT ![r] = h4]
                           /\ UNCHANGED fired
          /\ UNCHANGED << out, failure >>
    /\ UNCHANGED << opts, req, dir, stat >>

\* The callback of fs.readdir(dir): filter, set the headers, start
\* sortFiles, whose callback runs at once when no name is left.
ReaddirCallback(r) ==
    /\ pc[r] = "readdir"
    /\ \/ /\ ReadError(r)
          /\ failure' = [failure EXCEPT ![r] = "readdir"]
          /\ pc' = [pc EXCEPT ![r] = "done"]
          /\ UNCHANGED << files, sf, res, listing, fired >>
       \/ /\ stat[r].isDir
          /\ \E l \in Listings :
               LET kept == FilterFiles(l, opts.showDotfiles)
                   h4 == SetHeaders(res[r], stat[r], opts.cache)
                   b  == SortFilesStart(kept)
               IN  /\ listing' = [listing EXCEPT ![r] = l]
                   /\ files' = [files EXCEPT ![r] = kept]
                   /\ sf' = [sf EXCEPT ![r] = b]
                   /\ IF SortFilesComplete(b)
                      THEN /\ fired' = [fired EXCEPT ![r] = Append(@, Invocation(b))]
                           /\ SortFilesCallback(r, h4, b)
                      ELSE /\ pc' = [pc EXCEPT ![r] = "entries"]
                           /\ res' = [res EXCEPT ![r] = h4]
                           /\ UNCHANGED fired
          /\ UNCHANGED << out, failure >>
    /\ UNCHANGED << opts, req, dir, stat >>

\* The callback of the stat of one entry inside sortFiles.
EntryStatCallback(r) ==
    /\ pc[r] = "entries"
    /\ \E name \in sf[r].pending, result \in StatResults :
         LET b == SortFilesSettle(sf[r], dir[r], name, result)
         IN  /\ sf' = [sf EXCEPT ![r] = b]
             /\ IF SortFilesComplete(b)
                THEN /\ fired' = [fired EXCEPT ![r] = Append(@, Invocation(b))]
                     /\ SortFilesCallback(r, res[r], b)
                ELSE UNCHANGED << pc, res, fired >>
    /\ UNCHANGED << opts, req, dir, stat, files, out, listing, failure >>

\* The callback of the stat of the parent: put ".." in front of dirs, render.
ParentStatCallback(r) ==
    /\ pc[r] = "parentStat"
    /\ \/ /\ ParentError(r)
          /\ failure' = [failure EXCEPT ![r] = "parentStat"]
          /\ pc' = [pc EXCEPT ![r] = "done"]
          /\ UNCHANGED << sf, res >>
       \/ /\ LET s == Stats(ParentOf(dir[r]), TRUE)
                 b == [sf[r] EXCEPT !.dirs = << <<DotDot, s>> >> \o @]
             IN  /\ sf' = [sf EXCEPT ![r] = b]
                 /\ RenderEffect(r, res[r], b.dirs, b.files, b.errs)
          /\ UNCHANGED << out, failure >>
    /\ UNCHANGED << opts, req, dir, stat, files, listing, fired >>

Next ==
    \E r \in Requests :
        \/ Middleware(r)
        \/ StatCallback(r)
        \/ ReaddirCallback(r)
        \/ EntryStatCallback(r)
        \/ ParentStatCallback(r)

Spec == Init /\ [][Next]_vars

\* Two requests in flight at once, against one configuration and a small
\* filesystem: root "/s", base directory "/", request paths "/" and "/a",
\* directories that hold "a" and "x.url" at most.
InitTwo ==
    /\ InitWith(Requests)
    /\ opts.root = <<SegS>>
    /\ opts.baseDir = <<>>
    /\ opts.showDotfiles

SmallWorld ==
    \A r \in Requests :
        /\ req[r].pathname \in { <<>>, <<SegA>> }
        /\ listing[r] \subseteq { NameA, NameUrl }
        /\ stat[r] # Stats(dir[r], FALSE)

NextTwo ==
    \E r \in Requests :
        \/ Middleware(r) /\ SmallWorld'
        \/ StatCallback(r) /\ SmallWorld'
        \/ ReaddirCallback(r) /\ SmallWorld'
        \/ EntryStatCallback(r) /\ SmallWorld'
        \/ ParentStatCallback(r) /\ SmallWorld'

SpecTwo == InitTwo /\ [][NextTwo]_vars

-----------------------------------------------------------------------------
(* What a request has produced *)

\* The success response: writeHead(200) and end(html).
SuccessCalls(r) == Len(res[r].writeHead) + Len(res[r].ended)

Succeeded(r) == res[r].writeHead = <<200>> /\ Len(res[r].ended) = 1

\* The page of a request that succeeded.
Page(r) == res[r].ended[1]

\* No callback of the request is outstanding.
Finished(r) == pc[r] \in {"done", "threw"}

\* readdir has succeeded for the request.
Listed(r) ==
    /\ pc[r] \in {"entries", "parentStat", "done", "threw"}
    /\ failure[r] \notin {"stat", "readdir"}

\* The names of a bucket.
NamesOf(bucket) == { bucket[i][1] : i \in 1..Len(bucket) }

\* The entries of the rows of a page.
RowEntries(page) == { page.rows[i].entry : i \in 1..Len(page.rows) }

\* Path p is root or lies below it.
IsWithin(p, root) == Len(p) >= Len(root) /\ SubSeq(p, 1, Len(root)) = root

\* The error a failed filesystem call hands to the status-500 handler.
ErrorOf(kind) ==
    IF kind = "stat" THEN "statErr" ELSE IF kind = "readdir" THEN "readErr" ELSE "err"

-----------------------------------------------------------------------------
(* The claims *)

\* C1: a request never produces more than one outcome: writeHead(200) and
\* end are called at most once each, the status-500 handler or next at most
\* once, and never a success response together with an error call.
C1_AtMostOneOutcome ==
    \A r \in Requests :
        /\ Len(res[r].writeHead) <= 1
        /\ Len(res[r].ended) <= 1
        /\ Len(out[r]) <= 1
        /\ ~(SuccessCalls(r) > 0 /\ Len(out[r]) > 0)

C1_Witness ==
    /\ failure["r1"] = "parentStat"
    /\ opts.handleError
    /\ Len(out["r1"]) = 1

\* C2: a request all of whose filesystem callbacks have fired has exactly
\* one outcome: the success response or one error call.
C2_FinishedHasOneOutcome ==
    \A r \in Requests :
        Finished(r) =>
            \/ Succeeded(r) /\ out[r] = <<>>
            \/ SuccessCalls(r) = 0 /\ Len(out[r]) = 1

\* C3: when the stat of the target, the readdir or the stat of the parent
\* fails, there is exactly one error call, nothing of the pipeline runs
\* after it, and writeHead and end are never called.
C3_FatalErrorAborts ==
    \A r \in Requests :
        failure[r] # "none" =>
            /\ Len(out[r]) = 1
            /\ pc[r] = "done"
            /\ res[r].writeHead = <<>>
            /\ res[r].ended = <<>>
            /\ failure[r] = "stat" => stat[r] = NoStat
            /\ failure[r] \in {"stat", "readdir"} =>
                   /\ listing[r] = {}
                   /\ sf[r] = NoBuckets
                   /\ fired[r] = <<>>
            /\ failure[r] = "parentStat" => DotDot \notin NamesOf(sf[r].dirs)

C3_Witness ==
    /\ failure["r1"] = "parentStat"
    /\ sf["r1"].dirs # <<>>
    /\ sf["r1"].files # <<>>
    /\ pc["r1"] = "done"

\* C4: when the stat of a listed entry fails and the stat of the target, the
\* readdir and the stat of the parent succeed, the request ends in the
\* success response and the page has a row for every kept entry, the failed
\* one among them.  (Stated for requests with a host header and without
\* shortcut files, whose rendering has no other way to fail.)
C4_FailedEntryStillListed ==
    \A r \in Requests :
        ( /\ Finished(r)
          /\ failure[r] = "none"
          /\ sf[r].errs # <<>>
          /\ "host" \in DOMAIN req[r].headers
          /\ NameUrl \notin files[r] )
        => /\ Succeeded(r)
           /\ files[r] \subseteq RowEntries(Page(r))

\* C5: the error outcome depends on handleError alone: when it is true the
\* status-500 handler is called with the error of the failed call and next
\* is not, when it is false next is called and the handler is not; the same
\* for the three fatal errors, and no call is made without a fatal error.
C5_HandleErrorSelects ==
    \A r \in Requests :
        /\ failure[r] = "none" => out[r] = <<>>
        /\ failure[r] # "none" =>
              out[r] = IF opts.handleError
                       THEN << [fn |-> "status500", error |-> ErrorOf(failure[r])] >>
                       ELSE << [fn |-> "next", error |-> "none"] >>

C5_Witness ==
    /\ failure["r1"] = "readdir"
    /\ ~opts.handleError
    /\ out["r1"] = << [fn |-> "next", error |-> "none"] >>

\* C6: a page has a ".." row if and only if the parent of the target
\* directory is the root or lies below it, compared as paths.
C6_ParentRowIffWithinRoot ==
    \A r \in Requests :
        Succeeded(r) =>
            ( (DotDot \in RowEntries(Page(r)))
              <=> IsWithin(ParentOf(dir[r]), opts.root) )

\* C7: with showDotfiles false exactly the names readdir returned that do not
\* start with "." are kept, with showDotfiles true all of them; only kept
\* names are classified, and only kept names (and the injected "..") have
\* a row.
C7_DotfilesFiltered ==
    \A r \in Requests :
        /\ files[r] = IF opts.showDotfiles THEN listing[r]
                      ELSE { n \in listing[r] : Head(n) # "." }
        /\ sf[r].pending \cup NamesOf(sf[r].errs) \cup NamesOf(sf[r].files)
              \cup (NamesOf(sf[r].dirs) \ {DotDot}) \subseteq files[r]
        /\ Succeeded(r) =>
              /\ RowEntries(Page(r)) \ {DotDot} = files[r]
              /\ ~opts.showDotfiles =>
                    \A n \in RowEntries(Page(r)) \ {DotDot} : Head(n) # "."

C7_Witness ==
    /\ ~opts.showDotfiles
    /\ listing["r1"] = {NameDot, NameA}
    /\ Succeeded("r1")
    /\ RowEntries(Page("r1")) \ {DotDot} = {NameA}

\* The bucket whose rows a row of a page belongs to: 1 dirs, 2 files,
\* 3 unknowns.
BucketOf(r, row) ==
    IF row.entry \in NamesOf(sf[r].dirs) THEN 1
    ELSE IF row.entry \in NamesOf(sf[r].files) THEN 2
    ELSE 3

\* C8: in a page, two rows of the same bucket are in ascending order of the
\* entry names under the locale comparison.
C8_BucketsSortedByName ==
    \A r \in Requests :
        Succeeded(r) =>
            \A i, j \in 1..Len(Page(r).rows) :
                ( /\ i < j
                  /\ BucketOf(r, Page(r).rows[i]) = BucketOf(r, Page(r).rows[j]) )
                => localeCompare(Page(r).rows[i].entry, Page(r).rows[j].entry) < 0

\* C9: in a page, the rows of the dirs come before the rows of the files,
\* which come before the rows of the unknowns.
C9_BucketsInOrder ==
    \A r \in Requests :
        Succeeded(r) =>
            \A i, j \in 1..Len(Page(r).rows) :
                i < j => BucketOf(r, Page(r).rows[i]) <= BucketOf(r, Page(r).rows[j])

C9_Witness ==
    /\ Succeeded("r1")
    /\ sf["r1"].dirs # <<>>
    /\ sf["r1"].files # <<>>
    /\ fired["r1"][1].files # <<>>
    /\ Len(Page("r1").rows) >= 2

\* C10: the sortFiles callback is invoked at most once, with no stat
\* pending and every kept name in a bucket; it has not been invoked while a
\* stat is pending; with no name it is invoked by the readdir callback
\* itself, with three empty buckets; the parent stat and render start only
\* after it.
C10_CallbackAfterAllSettled ==
    \A r \in Requests :
        /\ Len(fired[r]) <= 1
        /\ \A i \in 1..Len(fired[r]) :
              /\ fired[r][i].pending = {}
              /\ NamesOf(fired[r][i].lolwuts) \cup NamesOf(fired[r][i].dirs)
                    \cup NamesOf(fired[r][i].files) = files[r]
        /\ sf[r].pending # {} => fired[r] = <<>> /\ pc[r] = "entries"
        /\ (Listed(r) /\ files[r] = {}) =>
              fired[r] = << [pending |-> {}, lolwuts |-> <<>>, dirs |-> <<>>,
                             files |-> <<>>] >>
        /\ (Listed(r) /\ pc[r] # "entries") =>
              Len(fired[r]) = 1 /\ sf[r].pending = {}

C10_Witness ==
    /\ pc["r1"] = "parentStat"
    /\ Len(fired["r1"]) = 1
    /\ Cardinality(files["r1"]) = MaxEntries
    /\ fired["r1"][1].lolwuts # <<>>
    /\ fired["r1"][1].dirs # <<>>


\* C11: the buckets handed to the sortFiles callback partition the names
\* kept by the dotfile filter: each kept name is in exactly one bucket, a
\* directory in dirs, another stat'ed entry in files, a failed stat in
\* unknowns with a null stat; no other name is in a bucket, and afterwards
\* the buckets change only by the ".." put in front of dirs.
C11_BucketsPartitionKept ==
    \A r \in Requests :
        \A i \in 1..Len(fired[r]) :
            LET f    == fired[r][i]
                kept == { n \in listing[r] : opts.showDotfiles \/ Head(n) # "." }
            IN  /\ NamesOf(f.lolwuts) \cup NamesOf(f.dirs) \cup NamesOf(f.files) = kept
                /\ Len(f.lolwuts) + Len(f.dirs) + Len(f.files) = Cardinality(kept)
                /\ \A k \in 1..Len(f.dirs) :
                      f.dirs[k][2] = Stats(Append(dir[r], f.dirs[k][1]), TRUE)
                /\ \A k \in 1..Len(f.files) :
                      f.files[k][2] = Stats(Append(dir[r], f.files[k][1]), FALSE)
                /\ \A k \in 1..Len(f.lolwuts) : f.lolwuts[k][2] = Null
                /\ sf[r].errs = f.lolwuts
                /\ sf[r].files = f.files
                /\ \/ sf[r].dirs = f.dirs
                   \/ /\ sf[r].dirs # <<>>
                      /\ Head(sf[r].dirs)[1] = DotDot
                      /\ Tail(sf[r].dirs) = f.dirs

C11_Witness ==
    /\ ~opts.showDotfiles
    /\ Len(fired["r1"]) = 1
    /\ listing["r1"] = {NameDot, NameA}
    /\ NamesOf(fired["r1"][1].lolwuts) = {NameA}

\* The orders in which the entries of a bucket may have been placed in it.
Perms(bucket) ==
    { [i \in 1..Len(bucket) |-> bucket[p[i]]] :
        p \in { q \in [1..Len(bucket) -> 1..Len(bucket)] :
                  \A a, b \in 1..Len(bucket) : a # b => q[a] # q[b] } }

\* The entries of the rows of a page, in the order of the rows.
EntryOrder(page) == [i \in 1..Len(page.rows) |-> page.rows[i].entry]

IsTrimOf(t, data) ==
    \E i \in 1..(Len(data) + 1), j \in 0..Len(data) :
        /\ i <= j + 1
        /\ SubSeq(data, i, j) = t
        /\ \A k \in 1..Len(data) : (k < i \/ k > j) => data[k] \in Whitespace
        /\ t # <<>> => (t[1] \notin Whitespace /\ t[Len(t)] \notin Whitespace)

\* The row is that of an entry that is no directory and whose name ends
\* in ".url".
IsShortcutRow(row) ==
    /\ ~row.isDir
    /\ Len(row.entry) >= 4
    /\ SubSeq(row.entry, Len(row.entry) - 3, Len(row.entry)) = <<".", "u", "r", "l">>

\* C13: the row of an entry that is no directory and whose name ends in
\* ".url" has the trimmed content of the file as href, the name without
\* ".url" as displayed name, is external and has "-" as size; the row of any
\* other entry has the href made of request path and name, its own name,
\* is not external and has the size of its stat.
C13_ShortcutRows ==
    \A r \in Requests :
        Succeeded(r) =>
            \A i \in 1..Len(Page(r).rows) :
                LET row == Page(r).rows[i]
                IN  IF IsShortcutRow(row)
                    THEN /\ row.external
                         /\ row.filesize = <<"-">>
                         /\ row.displayName \o <<".", "u", "r", "l">> = row.entry
                         /\ row.href.kind = "content"
                         /\ IsTrimOf(row.href.name, row.content)
                    ELSE /\ ~row.external
                         /\ row.filesize # <<"-">>
                         /\ row.displayName = row.entry
                         /\ row.href = [kind |-> "path", pathname |-> req[r].pathname,
                                        name |-> row.entry, slash |-> row.isDir]

C13_Witness ==
    /\ Succeeded("r1")
    /\ \E i \in 1..Len(Page("r1").rows) :
          /\ Page("r1").rows[i].entry = NameUrl
          /\ Page("r1").rows[i].external
          /\ Page("r1").rows[i].content = <<" ", "u", "\n">>
          /\ Page("r1").rows[i].href.name = <<"u">>


\* C14: a request that succeeds has status 200 and, by the time writeHead
\* and end are called, the four headers: content-type text/html, etag and
\* last-modified of the stat of the target directory, cache-control as
\* configured.
C14_SuccessHeaders ==
    \A r \in Requests :
        (res[r].writeHead # <<>> \/ res[r].ended # <<>>) =>
            /\ res[r].writeHead = <<200>>
            /\ Len(res[r].ended) = 1
            /\ stat[r] = Stats(dir[r], TRUE)
            /\ DOMAIN res[r].headers = HeaderNames
            /\ res[r].headers["content-type"] = <<"text/html">>
            /\ res[r].headers["etag"] = <<"etag", dir[r]>>
            /\ res[r].headers["last-modified"] = <<"mtime", dir[r]>>
            /\ res[r].headers["cache-control"] = <<opts.cache>>

C14_Witness ==
    /\ Succeeded("r1")
    /\ DotDot \in RowEntries(Page("r1"))
    /\ NameA \in RowEntries(Page("r1"))
    /\ DOMAIN res["r1"].headers = HeaderNames

\* Everything a request holds.
Local(r) ==
    << pc[r], req[r], dir[r], stat[r], files[r], sf[r], res[r], out[r],
       listing[r], failure[r], fired[r] >>

\* What a request holds is made of its own path, stats and listing.
OwnData(r) ==
    /\ pc[r] # "arrived" => dir[r] = ResolveDir(opts.root, opts.baseDir, req[r].pathname)
    /\ stat[r] \in { NoStat, Stats(dir[r], TRUE), Stats(dir[r], FALSE) }
    /\ files[r] \subseteq listing[r]
    /\ \A k \in 1..Len(sf[r].errs) : sf[r].errs[k][1] \in files[r]
    /\ \A k \in 1..Len(sf[r].files) :
          /\ sf[r].files[k][1] \in files[r]
          /\ sf[r].files[k][2].of = Append(dir[r], sf[r].files[k][1])
    /\ \A k \in 1..Len(sf[r].dirs) :
          \/ /\ sf[r].dirs[k][1] \in files[r]
             /\ sf[r].dirs[k][2].of = Append(dir[r], sf[r].dirs[k][1])
          \/ sf[r].dirs[k] = <<DotDot, Stats(ParentOf(dir[r]), TRUE)>>
    /\ \A h \in DOMAIN res[r].headers :
          res[r].headers[h] \in
              { <<"text/html">>, <<"etag", dir[r]>>, <<"mtime", dir[r]>>, <<opts.cache>> }
    /\ (out[r] # <<>>) <=> (failure[r] # "none")
    /\ Succeeded(r) =>
          /\ Page(r).title = req[r].pathname
          /\ Page(r).host = req[r].headers["host"]
          /\ RowEntries(Page(r)) =
                NamesOf(sf[r].dirs) \cup NamesOf(sf[r].files) \cup NamesOf(sf[r].errs)
          /\ \A i \in 1..Len(Page(r).rows) :
                LET row == Page(r).rows[i]
                IN  /\ row.external \/ row.href.pathname = req[r].pathname
                    /\ (~row.external /\ row.entry # DotDot) =>
                          row.filesize = <<"size", Append(dir[r], row.entry)>>

\* C15: with two requests in flight, a step changes what one request holds
\* and leaves the other request as it was, and what a request holds, its
\* outcome and its page are made of its own path, stats and listing only.
C15_RequestsIsolated ==
    /\ [](\A r \in Requests : OwnData(r))
    /\ [][\A r, q \in Requests :
             (r # q /\ Local(r)' # Local(r)) => Local(q)' = Local(q)]_vars

C15_Witness ==
    /\ Succeeded("r2")
    /\ pc["r1"] = "entries"
    /\ sf["r1"].pending # files["r1"]
    /\ dir["r1"] # dir["r2"]
    /\ Len(Page("r2").rows) = 2

\* C16: the ".." entry is put in front of dirs before the sort, for either
\* setting of showDotfiles, and its row stands where the comparison of the
\* names puts it among the rows of the dirs.
C16_ParentSortedWithDirs ==
    \A r \in Requests :
        Succeeded(r) =>
            /\ AddParentLink(dir[r], opts.root) =>
                  /\ DotDot \in RowEntries(Page(r))
                  /\ Head(sf[r].dirs) = <<DotDot, Stats(ParentOf(dir[r]), TRUE)>>
            /\ \A i, j \in 1..Len(Page(r).rows) :
                  (i < j /\ Page(r).rows[i].isDir /\ Page(r).rows[j].isDir) =>
                      localeCompare(Page(r).rows[i].entry, Page(r).rows[j].entry) < 0

C16_Witness ==
    /\ ~opts.showDotfiles
    /\ Succeeded("r1")
    /\ Len(Page("r1").rows) = 2
    /\ Page("r1").rows[1].entry = NameDash
    /\ Page("r1").rows[2].entry = DotDot

\* C17: a request path under the base directory resolves to the root
\* followed by the rest of the path; whatever the target directory is,
\* inside the root or outside it, it is stat'ed and no error outcome is
\* produced unless a filesystem call failed.
C17_TargetNotChecked ==
    \A r \in Requests :
        pc[r] \notin {"none", "arrived"} =>
            /\ IsWithin(req[r].pathname, opts.baseDir) =>
                  dir[r] = opts.root \o SubSeq(req[r].pathname, Len(opts.baseDir) + 1,
                                               Len(req[r].pathname))
            /\ ~IsWithin(dir[r], opts.root) => ~IsWithin(req[r].pathname, opts.baseDir)
            /\ out[r] # <<>> => failure[r] # "none"
            /\ (pc[r] = "done" /\ failure[r] = "none") => Succeeded(r)

C17_Witness ==
    /\ Succeeded("r1")
    /\ ~IsWithin(dir["r1"], opts.root)
    /\ ~IsWithin(req["r1"].pathname, opts.baseDir)
    /\ RowEntries(Page("r1")) = {NameA}

\* C18: setHeader is not called before readdir has succeeded: a request
\* that waits for the stat of the target or for readdir, or whose stat or
\* readdir failed, has an untouched response; once readdir has succeeded
\* the four headers are set, also while the stats of the entries are
\* pending and when the stat of the parent fails.
C18_HeadersAfterReaddir ==
    \A r \in Requests :
        /\ (pc[r] \in {"none", "arrived", "stat", "readdir"}
              \/ failure[r] \in {"stat", "readdir"}) => res[r] = FreshResponse
        /\ Listed(r) => DOMAIN res[r].headers = HeaderNames
        /\ failure[r] = "parentStat" =>
              /\ DOMAIN res[r].headers = HeaderNames
              /\ res[r].writeHead = <<>>
              /\ res[r].ended = <<>>

C18_Witness ==
    /\ failure["r1"] = "parentStat"
    /\ DOMAIN res["r1"].headers = HeaderNames
    /\ Len(out["r1"]) = 1
    /\ files["r1"] # {}

====
